---- MODULE Spec2Model ----
(***************************************************************************)
(* Medical-records chaincode (MedicalRecordChaincode + AccessControl).     *)
(*                                                                         *)
(* The ledger is a key/value store.  One action per transaction: the       *)
(* chaincode Init and the nine functions Invoke dispatches to.  Every      *)
(* transaction runs as one atomic step against the store (the host         *)
(* serialises committed transactions).                                     *)
(*                                                                         *)
(* Bytes on the ledger are modelled by tagged values, so that the three    *)
(* encodings the code uses stay distinct:                                  *)
(*    <<"bytes", s>>   []byte(s)                                           *)
(*    <<"le64", n>>    binary.LittleEndian.PutUint64 of n                  *)
(*    <<"json", r>>    json.Marshal of the struct r                        *)
(* and Nil is the nil slice GetState returns for a key never written.      *)
(*                                                                         *)
(* In Spec the store itself is reliable: GetState never fails and PutState *)
(* fails only on the empty key.  SpecMVCC adds two RegisterPatient          *)
(* simulated on one snapshot, SpecStoreFailing adds invocations during     *)
(* which calls of the store fail.                                          *)
(***************************************************************************)
EXTENDS Integers, Sequences, FiniteSets, TLC

VARIABLES
    store,         \* the ledger: key -> bytes, for the keys ever written
    nRegistered    \* number of RegisterPatient invocations that returned Success
                   \* and were committed

vars == <<store, nRegistered>>

----------------------------------------------------------------------------
(* Bounds of the model *)

\* a transaction is explored while it leaves at most this many keys on the ledger
MaxKeys == 5
\* and at most this many access keys
MaxGrants == 1
\* an invocation with failing store calls is explored while it leaves at most
\* this many keys on the ledger, RegisterPatient while fewer than this many
\* have returned Success, PatientVisit while the visit count is below it
MaxFailingKeys == 3

\* patient IDs a caller may put in an argument (0 is the zero value of the field)
PatientIDs == 0 .. 1
\* visit IDs a caller may put in an argument
VisitIDs == 0 .. 2
\* doctor names a caller may put in an argument
Doctors == {"dr.a", "dr.b"}
\* creator certificates; certA1 and certA2 are different certificates carrying
\* the same Subject CommonName
Certs == {"certA1", "certA2", "certB"}
\* values of the "access" argument (uint64); 3 is outside the AccessType enum
AccessArgs == 0 .. 3
DiagnosisTexts == {"flu"}
PerscriptionTexts == {"rest"}
Complaints == {"cough"}
\* first names a caller may put in a RegisterPatient argument
FirstNames == {"J"}
\* first names a caller may put in an UpdatePatientDetails argument
UpdatedFirstNames == {"J", "K"}
\* patient IDs a caller may put in a PatientVisit argument: those above and
\* a surrogate code point, which string(n) renders as U+FFFD
VisitPatientIDs == PatientIDs \cup {55296}

----------------------------------------------------------------------------
(* Constants of the program *)

MetadataKey == "__metadata_"
PatientInfoKey == "__patient_record_"
PatientInfoCountKey == "__patient_count_"
MedVisitKey == "__visit_record_"
VisitInfoCountKey == "__visit_count_"
DoctorPublicKey == "__access_public_key_"
DoctorAccessKey == "__access_doctor_"

None == 0
Info == 1
Full == 2

\* utf8.MaxRune, the largest code point string(n) renders
MaxRune == 1114111

----------------------------------------------------------------------------
(* Byte encodings *)

Nil == << >>

Bytes(s) == <<"bytes", s>>

\* binary.LittleEndian.PutUint64 / Uint64
PutUint64(n) == <<"le64", n>>
Uint64(data) == data[2]

\* json.Marshal / json.Unmarshal into a struct left at `zero`
Marshal(r) == <<"json", r>>
Unmarshal(data, zero) ==
    IF data = Nil THEN [val |-> zero, err |-> TRUE]
                  ELSE [val |-> data[2], err |-> FALSE]

ZeroPatientInfo ==
    [ID |-> 0, firstname |-> "", lastname |-> "", gender |-> 0,
     birthdate |-> 0, phone |-> ""]

ZeroMedicalVisit ==
    [ID |-> 0, patient |-> 0, doctor |-> "", complaint |-> "",
     diagnosis |-> "", perscription |-> ""]

----------------------------------------------------------------------------
(* Key codec *)

\* string(n) for an integer n: the UTF-8 text of the code point n, and of
\* U+FFFD when n is a surrogate or lies beyond utf8.MaxRune
RuneOf(n) == IF (n >= 55296 /\ n <= 57343) \/ n > MaxRune THEN 65533 ELSE n
RuneString(n) == "U+" \o ToString(RuneOf(n))

\* fmt.Sprint(n): the decimal text of n
Sprint(n) == ToString(n)

\* stub.CreateCompositeKey: namespace and attributes joined by U+0000; it
\* fails on an attribute holding U+0000 or U+10FFFF, and every caller drops
\* the error and goes on with the returned key "" (the empty sequence here)
BadAttribute(a) == a = RuneString(0) \/ a = RuneString(MaxRune)
CreateCompositeKey(objectType, attributes) ==
    IF \E i \in 1 .. Len(attributes) : BadAttribute(attributes[i])
    THEN << >>
    ELSE <<objectType>> \o attributes

----------------------------------------------------------------------------
(* Store adapter *)

\* stub.GetState: nil for a key never written
GetState(s, key) == IF key \in DOMAIN s THEN s[key] ELSE Nil

\* stub.PutState: refuses the empty key (the error is dropped by every caller)
PutState(s, key, value) ==
    IF key = << >> THEN s
    ELSE [k \in (DOMAIN s) \cup {key} |-> IF k = key THEN value ELSE s[k]]

getValue(s, key) ==
    LET data == GetState(s, key)
    IN IF data = Nil THEN 0 ELSE Uint64(data)

setValue(s, key, value) == PutState(s, key, PutUint64(value))

PatientKey(id) == CreateCompositeKey(PatientInfoKey, <<RuneString(id)>>)
VisitKey(patientId, id) ==
    CreateCompositeKey(MedVisitKey, <<RuneString(patientId), RuneString(id)>>)
VisitCountKey(patientId) ==
    CreateCompositeKey(VisitInfoCountKey, <<RuneString(patientId)>>)
SimpleKey(name) == <<name>>

setPatient(s, patient) == PutState(s, PatientKey(patient.ID), Marshal(patient))

getPatient(s, id) == Unmarshal(GetState(s, PatientKey(id)), ZeroPatientInfo)

setVisit(s, visit) ==
    PutState(s, VisitKey(visit.patient, visit.ID), Marshal(visit))

getVisit(s, patientId, id) ==
    Unmarshal(GetState(s, VisitKey(patientId, id)), ZeroMedicalVisit)

----------------------------------------------------------------------------
(* Identity *)

\* callerCN: the Subject CommonName of the creator's certificate
callerCN(cert) ==
    CASE cert = "certA1" -> "dr.a"
      [] cert = "certA2" -> "dr.a"
      [] cert = "certB" -> "dr.b"

getOwnerKey == CreateCompositeKey(MetadataKey, <<"Owner">>)

\* getCallParams: wellFormed says that args is one string holding a JSON
\* object of the handler's parameter shape, which is then decoded into
\* params; otherwise params keeps its zero value and caller is "".
getCallParams(wellFormed, cert, params, zero) ==
    IF wellFormed
    THEN [caller |-> callerCN(cert), params |-> params, err |-> FALSE]
    ELSE [caller |-> "", params |-> zero, err |-> TRUE]

\* the same for the handlers that discard the caller it returns
getCallParamsNoCaller(wellFormed, params, zero) ==
    IF wellFormed
    THEN [params |-> params, err |-> FALSE]
    ELSE [params |-> zero, err |-> TRUE]

----------------------------------------------------------------------------
(* peer.Response *)

Success(payload) == [status |-> "OK", message |-> "", payload |-> payload]
Error(message) == [status |-> "ERROR", message |-> message, payload |-> Nil]

ErrParse == "Error parsing transfer json"
ErrNoInfoAccess == "Caller does not have access to patient info."
ErrNoDataAccess == "Caller does not have access to patient data."
ErrAlreadyRegistered == "Already registered"
ErrNotRegistered == "Doctor not registered"
ErrInvalidCaller == "Invalid caller certificate"
ErrEndOfJSON == "unexpected end of JSON input"

----------------------------------------------------------------------------
(* Access control *)

DoctorKey(doctor) == CreateCompositeKey(DoctorPublicKey, <<doctor>>)
AccessKey(doctor, patientId) ==
    CreateCompositeKey(DoctorAccessKey, <<doctor, Sprint(patientId)>>)
\* the key checkAccess reads the level from
CheckedAccessKey(doctor, patientId) ==
    CreateCompositeKey(MetadataKey, <<"doctor", Sprint(patientId)>>)

\* AccessControl.registerDoctor
AccessControl_registerDoctor(s, doctor, doctorKey) ==
    LET key == DoctorKey(doctor)
        data == GetState(s, key)
    IN IF data # Nil
       THEN [store |-> s, ok |-> FALSE, err |-> ErrAlreadyRegistered]
       ELSE [store |-> PutState(s, key, doctorKey), ok |-> TRUE, err |-> ""]

\* setAccess without the comparison with the current level
setAccess_AlwaysWrites(s, patientId, doctor, accType) ==
    LET accesskey == AccessKey(doctor, patientId)
    IN [store |-> setValue(s, accesskey, accType), changed |-> TRUE, err |-> ""]

\* setAccess building its key without the patient's ID
setAccess_DropsPatient(s, patientId, doctor, accType) ==
    LET accesskey == AccessKey(doctor, 0)
        current == getValue(s, accesskey)
    IN IF current = accType
       THEN [store |-> s, changed |-> FALSE, err |-> ""]
       ELSE [store |-> setValue(s, accesskey, accType), changed |-> TRUE, err |-> ""]

\* AccessControl.setAccess
setAccess(s, patientId, doctor, accType) ==
    LET accesskey == AccessKey(doctor, patientId)
        current == getValue(s, accesskey)
    IN IF current = accType
       THEN [store |-> s, changed |-> FALSE, err |-> ""]
       ELSE [store |-> setValue(s, accesskey, accType), changed |-> TRUE, err |-> ""]

\* AccessControl.checkAccess
checkAccess(s, patientId, doctor, caller) ==
    LET data == GetState(s, DoctorKey(doctor))
    IN IF data = Nil THEN [access |-> 0, err |-> ErrNotRegistered]
       ELSE IF data # caller THEN [access |-> 0, err |-> ErrInvalidCaller]
       ELSE [access |-> getValue(s, CheckedAccessKey(doctor, patientId)), err |-> ""]

----------------------------------------------------------------------------
(* Handlers: each yields the store after the transaction and its response *)

Outcome(s, response) == [store |-> s, response |-> response, changed |-> FALSE]

ZeroPatientInfoParams ==
    [firstname |-> "", lastname |-> "", gender |-> 0, birthdate |-> 0, phone |-> ""]
ZeroPatientIDParams == [ID |-> 0, doctor |-> ""]
ZeroVisitInfoParams == [patient |-> 0, doctor |-> "", complaint |-> ""]
ZeroDiagnosisParams == [ID |-> 0, patient |-> 0, diagnosis |-> ""]
ZeroPerscriptionParams == [ID |-> 0, patient |-> 0, perscription |-> ""]
ZeroDoctorParams == [doctor |-> ""]
ZeroSetDoctorAccessParams == [patient |-> 0, doctor |-> "", access |-> 0]

\* registerPatient writing the count it read back instead of count + 1
registerPatient_StaleCount(s, wellFormed, args) ==
    LET cp == getCallParamsNoCaller(wellFormed, args, ZeroPatientInfoParams)
        params == cp.params
        count == getValue(s, SimpleKey(PatientInfoCountKey))
        newPatient == [ID |-> count + 1,
                       firstname |-> params.firstname,
                       lastname |-> params.lastname,
                       gender |-> params.gender,
                       birthdate |-> params.birthdate,
                       phone |-> params.phone]
        s1 == setPatient(s, newPatient)
        s2 == setValue(s1, SimpleKey(PatientInfoCountKey), count)
    IN IF cp.err THEN Outcome(s, Error(ErrParse))
       ELSE Outcome(s2, Success(Marshal(newPatient)))

registerPatient(s, wellFormed, args) ==
    LET cp == getCallParamsNoCaller(wellFormed, args, ZeroPatientInfoParams)
        params == cp.params
        count == getValue(s, SimpleKey(PatientInfoCountKey))
        newPatient == [ID |-> count + 1,
                       firstname |-> params.firstname,
                       lastname |-> params.lastname,
                       gender |-> params.gender,
                       birthdate |-> params.birthdate,
                       phone |-> params.phone]
        s1 == setPatient(s, newPatient)
        s2 == setValue(s1, SimpleKey(PatientInfoCountKey), count + 1)
    IN IF cp.err THEN Outcome(s, Error(ErrParse))
       ELSE Outcome(s2, Success(Marshal(newPatient)))

setDocAccess(s, wellFormed, args) ==
    LET cp == getCallParamsNoCaller(wellFormed, args, ZeroSetDoctorAccessParams)
        params == cp.params
        r == setAccess(s, params.patient, params.doctor, params.access)
    IN [store |-> r.store, response |-> Success(Nil), changed |-> r.changed]

registerDoctor(s, wellFormed, cert, args) ==
    LET cp == getCallParams(wellFormed, cert, args, ZeroDoctorParams)
        params == cp.params
        r == AccessControl_registerDoctor(s, params.doctor, Bytes(cp.caller))
    IN IF r.err # "" THEN Outcome(s, Error(r.err))
       ELSE Outcome(r.store, Success(Nil))

\* updatePatient without the look-up of the stored record
updatePatient_NoLookup(s, wellFormed, args) ==
    LET cp == getCallParamsNoCaller(wellFormed, args, ZeroPatientInfo)
        params == cp.params
    IN IF cp.err THEN Outcome(s, Error(ErrParse))
       ELSE Outcome(setPatient(s, params), Success(Nil))

updatePatient(s, wellFormed, args) ==
    LET cp == getCallParamsNoCaller(wellFormed, args, ZeroPatientInfo)
        params == cp.params
        got == getPatient(s, params.ID)
    IN IF cp.err THEN Outcome(s, Error(ErrParse))
       ELSE IF got.err THEN Outcome(s, Error(ErrEndOfJSON))
       ELSE Outcome(setPatient(s, params), Success(Nil))

getPatientById(s, wellFormed, cert, args) ==
    LET cp == getCallParams(wellFormed, cert, args, ZeroPatientIDParams)
        params == cp.params
        access == checkAccess(s, params.ID, params.doctor, Bytes(cp.caller)).access
        got == getPatient(s, params.ID)
    IN IF cp.err THEN Outcome(s, Error(ErrParse))
       ELSE IF access = 0 THEN Outcome(s, Error(ErrNoInfoAccess))
       ELSE IF got.err THEN Outcome(s, Error(ErrEndOfJSON))
       ELSE Outcome(s, Success(Marshal(got.val)))

patientVisit(s, wellFormed, args) ==
    LET cp == getCallParamsNoCaller(wellFormed, args, ZeroVisitInfoParams)
        params == cp.params
        countkey == VisitCountKey(params.patient)
        count == getValue(s, countkey)
        newVisit == [ID |-> count + 1,
                     patient |-> params.patient,
                     doctor |-> params.doctor,
                     complaint |-> params.complaint,
                     diagnosis |-> "",
                     perscription |-> ""]
        s1 == setVisit(s, newVisit)
        s2 == setValue(s1, countkey, count + 1)
    IN IF cp.err THEN Outcome(s, Error(ErrParse))
       ELSE Outcome(s2, Success(Marshal(newVisit)))

\* setDiagnosis with the comparison of the access level inverted
setDiagnosis_Inverted(s, wellFormed, cert, args) ==
    LET cp == getCallParams(wellFormed, cert, args, ZeroDiagnosisParams)
        params == cp.params
        visit == getVisit(s, params.patient, params.ID).val
        access == checkAccess(s, params.patient, visit.doctor, Bytes(cp.caller)).access
        patched == [visit EXCEPT !.diagnosis = params.diagnosis]
    IN IF cp.err THEN Outcome(s, Error(ErrParse))
       ELSE IF access = 2 THEN Outcome(s, Error(ErrNoDataAccess))
       ELSE Outcome(setVisit(s, patched), Success(Marshal(patched)))

setDiagnosis(s, wellFormed, cert, args) ==
    LET cp == getCallParams(wellFormed, cert, args, ZeroDiagnosisParams)
        params == cp.params
        visit == getVisit(s, params.patient, params.ID).val
        access == checkAccess(s, params.patient, visit.doctor, Bytes(cp.caller)).access
        patched == [visit EXCEPT !.diagnosis = params.diagnosis]
    IN IF cp.err THEN Outcome(s, Error(ErrParse))
       ELSE IF access # 2 THEN Outcome(s, Error(ErrNoDataAccess))
       ELSE Outcome(setVisit(s, patched), Success(Marshal(patched)))

setPerscription(s, wellFormed, cert, args) ==
    LET cp == getCallParams(wellFormed, cert, args, ZeroPerscriptionParams)
        params == cp.params
        visit == getVisit(s, params.patient, params.ID).val
        access == checkAccess(s, params.patient, visit.doctor, Bytes(cp.caller)).access
        patched == [visit EXCEPT !.perscription = params.perscription]
    IN IF cp.err THEN Outcome(s, Error(ErrParse))
       ELSE IF access # 2 THEN Outcome(s, Error(ErrNoDataAccess))
       ELSE Outcome(setVisit(s, patched), Success(Marshal(patched)))

\* the loop of getMedicalRecords: visitID from 0 while visitID < count
History(s, patientId, count) ==
    [i \in 1 .. count |-> getVisit(s, patientId, i - 1).val]

\* getMedicalRecords with the comparison of the access level inverted
getMedicalRecords_Inverted(s, wellFormed, cert, args) ==
    LET cp == getCallParams(wellFormed, cert, args, ZeroPatientIDParams)
        params == cp.params
        access == checkAccess(s, params.ID, params.doctor, Bytes(cp.caller)).access
        count == getValue(s, VisitCountKey(params.ID))
        got == getPatient(s, params.ID)
        records == [patient |-> got.val, history |-> History(s, params.ID, count)]
    IN IF cp.err THEN Outcome(s, Error(ErrParse))
       ELSE IF access = 2 THEN Outcome(s, Error(ErrNoInfoAccess))
       ELSE IF got.err THEN Outcome(s, Error(ErrEndOfJSON))
       ELSE Outcome(s, Success(Marshal(records)))

getMedicalRecords(s, wellFormed, cert, args) ==
    LET cp == getCallParams(wellFormed, cert, args, ZeroPatientIDParams)
        params == cp.params
        access == checkAccess(s, params.ID, params.doctor, Bytes(cp.caller)).access
        count == getValue(s, VisitCountKey(params.ID))
        got == getPatient(s, params.ID)
        records == [patient |-> got.val, history |-> History(s, params.ID, count)]
    IN IF cp.err THEN Outcome(s, Error(ErrParse))
       ELSE IF access # 2 THEN Outcome(s, Error(ErrNoInfoAccess))
       ELSE IF got.err THEN Outcome(s, Error(ErrEndOfJSON))
       ELSE Outcome(s, Success(Marshal(records)))

----------------------------------------------------------------------------
(* Transactions *)

\* the argument the handler decodes: args when well formed, nothing otherwise
WellFormed(S) == {[wellFormed |-> TRUE, args |-> a] : a \in S}
Malformed(zero) == {[wellFormed |-> FALSE, args |-> zero]}

PatientInfoParamsArgs ==
    {[firstname |-> f, lastname |-> "Doe", gender |-> 1, birthdate |-> 19700101,
      phone |-> "x"] : f \in FirstNames}
PatientInfoArgs ==
    {[ID |-> id, firstname |-> f, lastname |-> "Doe", gender |-> 1,
      birthdate |-> 19700101, phone |-> "x"] : id \in PatientIDs, f \in UpdatedFirstNames}
PatientIDArgs == {[ID |-> id, doctor |-> d] : id \in PatientIDs, d \in Doctors}
VisitInfoArgs ==
    {[patient |-> p, doctor |-> d, complaint |-> c] :
        p \in VisitPatientIDs, d \in Doctors, c \in Complaints}
DiagnosisArgs ==
    {[ID |-> v, patient |-> p, diagnosis |-> x] :
        v \in VisitIDs, p \in PatientIDs, x \in DiagnosisTexts}
PerscriptionArgs ==
    {[ID |-> v, patient |-> p, perscription |-> x] :
        v \in VisitIDs, p \in PatientIDs, x \in PerscriptionTexts}
DoctorArgs == {[doctor |-> d] : d \in Doctors}
SetDoctorAccessArgs ==
    {[patient |-> p, doctor |-> d, access |-> a] :
        p \in PatientIDs, d \in Doctors, a \in AccessArgs}

RegisterPatientCalls == WellFormed(PatientInfoParamsArgs) \cup Malformed(ZeroPatientInfoParams)
UpdatePatientCalls == WellFormed(PatientInfoArgs) \cup Malformed(ZeroPatientInfo)
PatientIDCalls == WellFormed(PatientIDArgs) \cup Malformed(ZeroPatientIDParams)
PatientVisitCalls == WellFormed(VisitInfoArgs) \cup Malformed(ZeroVisitInfoParams)
SetDiagnosisCalls == WellFormed(DiagnosisArgs) \cup Malformed(ZeroDiagnosisParams)
SetPerscriptionCalls == WellFormed(PerscriptionArgs) \cup Malformed(ZeroPerscriptionParams)
RegisterDoctorCalls == WellFormed(DoctorArgs) \cup Malformed(ZeroDoctorParams)
SetDoctorAccessCalls == WellFormed(SetDoctorAccessArgs) \cup Malformed(ZeroSetDoctorAccessParams)

AccessKeys(s) == {k \in DOMAIN s : k[1] = DoctorAccessKey}

\* the stores the model explores
WithinBounds(s) ==
    /\ Cardinality(DOMAIN s) <= MaxKeys
    /\ Cardinality(AccessKeys(s)) <= MaxGrants

\* the host invokes a chaincode only once it is instantiated, i.e. after Init
Instantiated == GetState(store, getOwnerKey) # Nil

\* the host commits the writes of a transaction; its response goes to the client
Commit(out) ==
    /\ WithinBounds(out.store)
    /\ store' = out.store

Init ==
    /\ store = << >>
    /\ nRegistered = 0

\* MedicalRecordChaincode.Init, run by the host at instantiation and at every upgrade
init(s, cert) ==
    LET caller == callerCN(cert)
        ownerKey == getOwnerKey
    IN Outcome(PutState(s, ownerKey, Bytes(caller)), Success(Nil))

ChaincodeInit ==
    \E cert \in Certs :
        /\ Commit(init(store, cert))
        /\ UNCHANGED nRegistered

RegisterPatient ==
    \E c \in RegisterPatientCalls :
        LET out == registerPatient(store, c.wellFormed, c.args)
        IN /\ Instantiated
           /\ Commit(out)
           /\ nRegistered' = IF out.response.status = "OK" THEN nRegistered + 1
                                                           ELSE nRegistered

UpdatePatientDetails ==
    \E c \in UpdatePatientCalls :
        /\ Instantiated
        /\ Commit(updatePatient(store, c.wellFormed, c.args))
        /\ UNCHANGED nRegistered

GetPatient ==
    \E cert \in Certs, c \in PatientIDCalls :
        /\ Instantiated
        /\ Commit(getPatientById(store, c.wellFormed, cert, c.args))
        /\ UNCHANGED nRegistered

PatientVisit ==
    \E c \in PatientVisitCalls :
        /\ Instantiated
        /\ Commit(patientVisit(store, c.wellFormed, c.args))
        /\ UNCHANGED nRegistered

SetDiagnosis ==
    \E cert \in Certs, c \in SetDiagnosisCalls :
        /\ Instantiated
        /\ Commit(setDiagnosis(store, c.wellFormed, cert, c.args))
        /\ UNCHANGED nRegistered

SetPerscription ==
    \E cert \in Certs, c \in SetPerscriptionCalls :
        /\ Instantiated
        /\ Commit(setPerscription(store, c.wellFormed, cert, c.args))
        /\ UNCHANGED nRegistered

GetMedicalRecords ==
    \E cert \in Certs, c \in PatientIDCalls :
        /\ Instantiated
        /\ Commit(getMedicalRecords(store, c.wellFormed, cert, c.args))
        /\ UNCHANGED nRegistered

RegisterDoctor ==
    \E cert \in Certs, c \in RegisterDoctorCalls :
        /\ Instantiated
        /\ Commit(registerDoctor(store, c.wellFormed, cert, c.args))
        /\ UNCHANGED nRegistered

SetDoctorAccess ==
    \E c \in SetDoctorAccessCalls :
        /\ Instantiated
        /\ Commit(setDocAccess(store, c.wellFormed, c.args))
        /\ UNCHANGED nRegistered

Next ==
    \/ ChaincodeInit
    \/ RegisterPatient
    \/ UpdatePatientDetails
    \/ GetPatient
    \/ PatientVisit
    \/ SetDiagnosis
    \/ SetPerscription
    \/ GetMedicalRecords
    \/ RegisterDoctor
    \/ SetDoctorAccess

Spec == Init /\ [][Next]_vars

----------------------------------------------------------------------------
(* Concurrent invocations: two RegisterPatient simulated on one snapshot *)

\* registerPatient taking the count from somewhere else than stub.GetState
registerPatient_reads_NoCount(wellFormed) ==
    IF wellFormed THEN {getOwnerKey} ELSE {}

\* the keys registerPatient passes to stub.GetState: the owner key in
\* getCallParams (once args are decoded) and the patient count in getValue
registerPatient_reads(wellFormed) ==
    IF wellFormed THEN {getOwnerKey, SimpleKey(PatientInfoCountKey)} ELSE {}

\* the keys registerPatient passes to stub.PutState with success
registerPatient_writes(s, wellFormed) ==
    LET count == getValue(s, SimpleKey(PatientInfoCountKey))
    IN IF wellFormed
       THEN {PatientKey(count + 1), SimpleKey(PatientInfoCountKey)} \ {<< >>}
       ELSE {}

\* the simulation of RegisterPatient on the snapshot s: its read set, its
\* write set (keys, with the values out.store holds for them) and its response
Simulate(s, c) ==
    [reads |-> registerPatient_reads(c.wellFormed),
     writes |-> registerPatient_writes(s, c.wellFormed),
     out |-> registerPatient(s, c.wellFormed, c.args)]

\* the host's validation at commit: a transaction is aborted when a key of its
\* read set was written after its snapshot was taken
Aborted(tx, writtenSince) == tx.reads \cap writtenSince # {}

\* the host applying the write set of a valid transaction to the ledger s
ApplyWrites(s, tx) ==
    [k \in (DOMAIN s) \cup tx.writes |->
        IF k \in tx.writes THEN tx.out.store[k] ELSE s[k]]

\* the host resolving two transactions simulated on the snapshot s and ordered
\* tx1, tx2; only a transaction whose simulation returned Success is submitted
CommitPair(s, tx1, tx2) ==
    LET ok1 == tx1.out.response.status = "OK"
        s1 == IF ok1 THEN ApplyWrites(s, tx1) ELSE s
        w1 == IF ok1 THEN tx1.writes ELSE {}
        ok2 == tx2.out.response.status = "OK" /\ ~Aborted(tx2, w1)
        s2 == IF ok2 THEN ApplyWrites(s1, tx2) ELSE s1
    IN [store |-> s2,
        committed |-> (IF ok1 THEN 1 ELSE 0) + (IF ok2 THEN 1 ELSE 0)]

ConcurrentRegisterPatient ==
    \E c1 \in RegisterPatientCalls, c2 \in RegisterPatientCalls :
        LET r == CommitPair(store, Simulate(store, c1), Simulate(store, c2))
        IN /\ Instantiated
           /\ WithinBounds(r.store)
           /\ store' = r.store
           /\ nRegistered' = nRegistered + r.committed

NextMVCC ==
    \/ Next
    \/ ConcurrentRegisterPatient

SpecMVCC == Init /\ [][NextMVCC]_vars

----------------------------------------------------------------------------
(* Invocations during which calls of the store fail *)

\* the store calls of registerPatient and patientVisit that may fail
StoreCalls == {"GetOwner", "GetCount", "PutRecord", "PutCount"}

ErrOwnerData == "Error getting owner data"

\* registerPatient when the store calls in failing return an error:
\* getCallParams returns the error of getOwnerCN, the error of getValue is
\* dropped and count is 0, the results of setPatient and setValue are dropped
registerPatient_StoreFailing(s, wellFormed, args, failing) ==
    LET cp == getCallParamsNoCaller(wellFormed, args, ZeroPatientInfoParams)
        params == cp.params
        count == IF "GetCount" \in failing THEN 0
                 ELSE getValue(s, SimpleKey(PatientInfoCountKey))
        newPatient == [ID |-> count + 1,
                       firstname |-> params.firstname,
                       lastname |-> params.lastname,
                       gender |-> params.gender,
                       birthdate |-> params.birthdate,
                       phone |-> params.phone]
        s1 == IF "PutRecord" \in failing THEN s ELSE setPatient(s, newPatient)
        s2 == IF "PutCount" \in failing THEN s1
              ELSE setValue(s1, SimpleKey(PatientInfoCountKey), count + 1)
    IN IF cp.err THEN Outcome(s, Error(ErrParse))
       ELSE IF "GetOwner" \in failing THEN Outcome(s, Error(ErrOwnerData))
       ELSE Outcome(s2, Success(Marshal(newPatient)))

\* patientVisit when the store calls in failing return an error
patientVisit_StoreFailing(s, wellFormed, args, failing) ==
    LET cp == getCallParamsNoCaller(wellFormed, args, ZeroVisitInfoParams)
        params == cp.params
        countkey == VisitCountKey(params.patient)
        count == IF "GetCount" \in failing THEN 0 ELSE getValue(s, countkey)
        newVisit == [ID |-> count + 1,
                     patient |-> params.patient,
                     doctor |-> params.doctor,
                     complaint |-> params.complaint,
                     diagnosis |-> "",
                     perscription |-> ""]
        s1 == IF "PutRecord" \in failing THEN s ELSE setVisit(s, newVisit)
        s2 == IF "PutCount" \in failing THEN s1 ELSE setValue(s1, countkey, count + 1)
    IN IF cp.err THEN Outcome(s, Error(ErrParse))
       ELSE IF "GetOwner" \in failing THEN Outcome(s, Error(ErrOwnerData))
       ELSE Outcome(s2, Success(Marshal(newVisit)))

\* the sets of store calls failing during one invocation, none included
Failures == SUBSET StoreCalls

RegisterPatientStoreFailing ==
    \E c \in RegisterPatientCalls, failing \in Failures :
        LET out == registerPatient_StoreFailing(store, c.wellFormed, c.args, failing)
        IN /\ Instantiated
           /\ nRegistered < MaxFailingKeys
           /\ Cardinality(DOMAIN out.store) <= MaxFailingKeys
           /\ Commit(out)
           /\ nRegistered' = IF out.response.status = "OK" THEN nRegistered + 1
                                                           ELSE nRegistered

PatientVisitStoreFailing ==
    \E c \in PatientVisitCalls, failing \in Failures :
        LET out == patientVisit_StoreFailing(store, c.wellFormed, c.args, failing)
        IN /\ Instantiated
           /\ getValue(store, VisitCountKey(c.args.patient)) < MaxFailingKeys
           /\ Cardinality(DOMAIN out.store) <= MaxFailingKeys
           /\ Commit(out)
           /\ UNCHANGED nRegistered

NextStoreFailing ==
    \/ ChaincodeInit
    \/ RegisterPatientStoreFailing
    \/ PatientVisitStoreFailing

SpecStoreFailing == Init /\ [][NextStoreFailing]_vars

----------------------------------------------------------------------------
(* Readings of the ledger used to state the properties *)

\* the bytes pinned for doctor d, Nil when d is not registered
Pinned(s, d) == GetState(s, DoctorKey(d))
\* the level SetAccess last wrote for (d, p), None when it never wrote one
StoredLevel(s, d, p) == getValue(s, AccessKey(d, p))
\* the creator certificate cert passes the pin of doctor d
HoldsPin(s, d, cert) == Pinned(s, d) = Bytes(callerCN(cert))
PatientCount(s) == getValue(s, SimpleKey(PatientInfoCountKey))
VisitCount(s, p) == getValue(s, VisitCountKey(p))
Levels == {None, Info, Full}
VisitKeys(s) == {k \in DOMAIN s : k[1] = MedVisitKey}
\* the ledger s without the key k
Without(s, k) == [x \in (DOMAIN s) \ {k} |-> s[x]]

----------------------------------------------------------------------------
(* C1 *)

\* C1: once doctor d is registered and SetAccess(p, d, L) has written level L
\* for (p, d), CheckAccess(p, d, pinned bytes) returns L, and CheckAccess with
\* any other caller bytes fails with "Invalid caller certificate".
C1_CheckAccessReturnsSetLevel ==
    \A d \in Doctors, p \in PatientIDs :
        (Pinned(store, d) # Nil /\ AccessKey(d, p) \in DOMAIN store) =>
            /\ StoredLevel(store, d, p) \in Levels =>
                    checkAccess(store, p, d, Pinned(store, d)) =
                        [access |-> StoredLevel(store, d, p), err |-> ""]
            /\ \A c \in {Bytes(x) : x \in Certs \cup Doctors \cup {""}} :
                    c # Pinned(store, d) =>
                        checkAccess(store, p, d, c).err = ErrInvalidCaller

----------------------------------------------------------------------------
(* C2 *)

VisitAt(s, k) == s[k][2]
MedicalFields(v) == <<v.diagnosis, v.perscription>>
\* cert passes the pin of the visit's doctor, who holds Full on the visit's patient
AuthorizedFor(s, cert, visit) ==
    /\ HoldsPin(s, visit.doctor, cert)
    /\ StoredLevel(s, visit.doctor, visit.patient) = Full

C2_OnlyAuthorizedChange ==
    \A k \in VisitKeys(store) :
        MedicalFields(VisitAt(store', k)) # MedicalFields(VisitAt(store, k)) =>
            \E cert \in Certs :
                /\ AuthorizedFor(store, cert, VisitAt(store, k))
                /\ \/ \E a \in DiagnosisArgs :
                        /\ VisitKey(a.patient, a.ID) = k
                        /\ store' = setDiagnosis(store, TRUE, cert, a).store
                   \/ \E a \in PerscriptionArgs :
                        /\ VisitKey(a.patient, a.ID) = k
                        /\ store' = setPerscription(store, TRUE, cert, a).store

C2_OthersRejected ==
    Instantiated =>
    /\ \A cert \in Certs, c \in SetDiagnosisCalls :
        LET v == getVisit(store, c.args.patient, c.args.ID)
            out == setDiagnosis(store, c.wellFormed, cert, c.args)
        IN ~(c.wellFormed /\ ~v.err /\ AuthorizedFor(store, cert, v.val)) =>
                out.response.status = "ERROR" /\ out.store = store
    /\ \A cert \in Certs, c \in SetPerscriptionCalls :
        LET v == getVisit(store, c.args.patient, c.args.ID)
            out == setPerscription(store, c.wellFormed, cert, c.args)
        IN ~(c.wellFormed /\ ~v.err /\ AuthorizedFor(store, cert, v.val)) =>
                out.response.status = "ERROR" /\ out.store = store

\* C2: in every step, the diagnosis or prescription of a stored visit changes
\* only by a SetDiagnosis / SetPerscription whose creator passes the pin of the
\* visit's doctor while that doctor's level on the patient is Full; every
\* other SetDiagnosis / SetPerscription invocation returns an error and
\* leaves the ledger unchanged.
C2_VisitMutationGated == [][C2_OnlyAuthorizedChange]_vars /\ []C2_OthersRejected

\* a stored visit whose doctor is pinned and holds Full, on which SetDiagnosis
\* submitted under another doctor's certificate is refused
C2_Witness ==
    \E k \in VisitKeys(store), own \in Certs, other \in Certs :
        LET v == VisitAt(store, k)
        IN /\ AuthorizedFor(store, own, v)
           /\ ~HoldsPin(store, v.doctor, other)
           /\ setDiagnosis(store, TRUE, other,
                           [ID |-> v.ID, patient |-> v.patient, diagnosis |-> "flu"])
                = Outcome(store, Error(ErrNoDataAccess))

----------------------------------------------------------------------------
(* C3 *)

\* C3: on an instantiated ledger GetPatient(p, d) returns data only when the level of (d, p) is at least
\* Info and the creator passes d's pin; GetMedicalRecords(p, d) only when the
\* level is Full and the creator passes d's pin.  Every other well-formed
\* invocation fails with the no-access error and returns no payload.
C3_ReadGating ==
    Instantiated =>
    \A cert \in Certs, a \in PatientIDArgs :
        LET lvl == StoredLevel(store, a.doctor, a.ID)
            pin == HoldsPin(store, a.doctor, cert)
            gp == getPatientById(store, TRUE, cert, a).response
            mr == getMedicalRecords(store, TRUE, cert, a).response
        IN /\ gp.status = "OK" => (lvl >= Info /\ pin)
           /\ mr.status = "OK" => (lvl = Full /\ pin)
           /\ ~(lvl >= Info /\ pin) => gp = Error(ErrNoInfoAccess)
           /\ ~(lvl = Full /\ pin) => mr = Error(ErrNoInfoAccess)

\* a registered patient, and a pinned doctor at level Info on that patient whose
\* GetMedicalRecords is refused
C3_Witness ==
    \E cert \in Certs, a \in PatientIDArgs :
        /\ HoldsPin(store, a.doctor, cert)
        /\ StoredLevel(store, a.doctor, a.ID) = Info
        /\ ~getPatient(store, a.ID).err
        /\ getMedicalRecords(store, TRUE, cert, a).response = Error(ErrNoInfoAccess)

----------------------------------------------------------------------------
(* C4 *)

\* C4: what is stored under DoctorPublicKey/<d> never changes once stored; the
\* RegisterDoctor(d) that stores it stores the bytes of its creator's
\* certificate; every RegisterDoctor(d) after it fails with "Already
\* registered" and leaves the ledger unchanged.
C4_DoctorPinning ==
    [][\A d \in Doctors :
        /\ Pinned(store, d) # Nil => Pinned(store', d) = Pinned(store, d)
        /\ (Pinned(store, d) = Nil /\ Pinned(store', d) # Nil) =>
                \E cert \in Certs :
                    /\ store' = registerDoctor(store, TRUE, cert, [doctor |-> d]).store
                    /\ Pinned(store', d) = Bytes(cert)
        /\ Pinned(store, d) # Nil =>
                \A cert \in Certs :
                    registerDoctor(store, TRUE, cert, [doctor |-> d])
                        = Outcome(store, Error(ErrAlreadyRegistered))]_vars

----------------------------------------------------------------------------
(* C5 *)

C5_CountMatches(s, n) ==
    /\ PatientCount(s) = n
    /\ \A i \in 1 .. n : GetState(s, PatientKey(i)) # Nil

\* C5: after n successful RegisterPatient invocations PatientCount is n and a
\* record is stored under Patient/<i> for every i in 1..n; each success raises
\* PatientCount by one and stores the new record, carrying the new count as its
\* ID, under the new count; PatientCount never decreases.
C5_PatientCounter ==
    [][/\ C5_CountMatches(store', nRegistered')
       /\ PatientCount(store') >= PatientCount(store)
       /\ nRegistered' = nRegistered + 1 =>
            /\ PatientCount(store') = PatientCount(store) + 1
            /\ GetState(store, PatientKey(PatientCount(store'))) = Nil
            /\ ~getPatient(store', PatientCount(store')).err
            /\ getPatient(store', PatientCount(store')).val.ID = PatientCount(store')]_vars

\* two RegisterPatient invocations have succeeded
C5_Witness == nRegistered = 2 /\ PatientCount(store) = 2

----------------------------------------------------------------------------
(* C6 *)

\* C6: on an instantiated ledger every successful PatientVisit on patient p
\* returns the visit ID VisitCount/<p> + 1, raises VisitCount/<p> by one,
\* stores the returned visit under Visit/<p>/<new count>, where no visit was
\* stored before, and leaves the visit counters of the other patients alone
\* (so the IDs returned for p are 1, 2, 3, ...).
C6_VisitCounter ==
    Instantiated =>
        \A a \in VisitInfoArgs :
            LET out == patientVisit(store, TRUE, a)
                p == a.patient
                id == VisitCount(store, p) + 1
            IN out.response.status = "OK" =>
                /\ out.response.payload[2].ID = id
                /\ VisitCount(out.store, p) = id
                /\ GetState(store, VisitKey(p, id)) = Nil
                /\ GetState(out.store, VisitKey(p, id)) = out.response.payload
                /\ \A q \in PatientIDs \ {p} :
                        VisitCount(out.store, q) = VisitCount(store, q)

----------------------------------------------------------------------------
(* C7 *)

\* C7: on an instantiated ledger the history GetMedicalRecords builds for patient p is exactly the stored
\* visits with IDs 1..c, c = VisitCount/<p>, each as currently stored.
C7_HistoryIsAllVisits ==
    Instantiated =>
    \A p \in PatientIDs :
        LET c == VisitCount(store, p)
        IN History(store, p, c) = [i \in 1 .. c |-> getVisit(store, p, i).val]

----------------------------------------------------------------------------
(* C8 *)

\* C8: when doctor d is pinned to the creator's certificate, holds at least
\* Info on patient p, and a record of p is stored, GetPatient(p, d) by that
\* creator succeeds and returns the stored record.
C8_ReadYourWrites ==
    \A cert \in Certs, a \in PatientIDArgs :
        (/\ HoldsPin(store, a.doctor, cert)
         /\ StoredLevel(store, a.doctor, a.ID) >= Info
         /\ GetState(store, PatientKey(a.ID)) # Nil) =>
            getPatientById(store, TRUE, cert, a).response
                = Success(Marshal(getPatient(store, a.ID).val))

----------------------------------------------------------------------------
(* C9 *)

\* C9: once the Owner is stored, no transaction changes it.
C9_SingleOwner ==
    [][GetState(store, getOwnerKey) # Nil =>
            GetState(store', getOwnerKey) = GetState(store, getOwnerKey)]_vars

----------------------------------------------------------------------------
(* C10 *)

\* C10: SetAccess(p, d, L) on an instantiated ledger whose level for (p, d) is already L
\* (None for a pair never set) returns false without error and leaves the
\* ledger as it is; otherwise it returns true and the ledger differs exactly by
\* holding L for (p, d).
C10_SetAccessIdempotent ==
    Instantiated =>
    \A p \in PatientIDs, d \in Doctors, L \in AccessArgs :
        LET r == setAccess(store, p, d, L)
            key == AccessKey(d, p)
        IN IF StoredLevel(store, d, p) = L
           THEN r = [store |-> store, changed |-> FALSE, err |-> ""]
           ELSE /\ r.changed /\ r.err = ""
                /\ getValue(r.store, key) = L
                /\ Without(r.store, key) = Without(store, key)

\* a level has been written for some pair, and none for some other pair
C10_Witness ==
    \E p \in PatientIDs, d \in Doctors, q \in PatientIDs, e \in Doctors :
        /\ StoredLevel(store, d, p) = Full
        /\ AccessKey(e, q) \notin DOMAIN store

----------------------------------------------------------------------------
(* C11 *)

PatientKeys(s) == {k \in DOMAIN s : k[1] = PatientInfoKey}

C11_PairResolved ==
    Instantiated =>
    \A c1 \in WellFormed(PatientInfoParamsArgs), c2 \in WellFormed(PatientInfoParamsArgs) :
        LET r == CommitPair(store, Simulate(store, c1), Simulate(store, c2))
            n == PatientCount(store)
        IN /\ r.committed = 1
           /\ PatientCount(r.store) = n + 1
           /\ PatientKeys(r.store) \ PatientKeys(store) = {PatientKey(n + 1)}
           /\ r.store = registerPatient(store, c1.wellFormed, c1.args).store

C11_DistinctIDs ==
    /\ PatientCount(store) = nRegistered
    /\ \A i \in 1 .. PatientCount(store) : getPatient(store, i).val.ID = i

\* C11: two RegisterPatient invocations simulated on the same snapshot both
\* read and write PatientCount; the host commits exactly one of them, so that
\* PatientCount grows by one, exactly one patient record is new, and the
\* committed patients carry the distinct IDs 1..PatientCount.
C11_CounterConflict == C11_PairResolved /\ C11_DistinctIDs

\* a ledger on which one of two concurrent RegisterPatient has been committed
\* and on which the second of two further ones would be aborted
C11_Witness ==
    /\ Instantiated
    /\ nRegistered = 1
    /\ PatientCount(store) = 1
    /\ \E c \in WellFormed(PatientInfoParamsArgs) :
        /\ Aborted(Simulate(store, c), Simulate(store, c).writes)
        /\ CommitPair(store, Simulate(store, c), Simulate(store, c)).committed = 1

----------------------------------------------------------------------------
(* C12 *)

\* what the claim has a gated invocation answer when it names doctor d and is
\* submitted under cert: nothing is prescribed when cert passes d's pin
C12_Reported(response, d, cert) ==
    /\ Pinned(store, d) = Nil => response = Error(ErrNotRegistered)
    /\ (Pinned(store, d) # Nil /\ ~HoldsPin(store, d, cert)) =>
            response = Error(ErrInvalidCaller)

\* C12: on an instantiated ledger a GetPatient, GetMedicalRecords, SetDiagnosis
\* or SetPerscription that names (or, through the stored visit, resolves to) a
\* registered doctor whose pin the creator does not pass fails with "Invalid
\* caller certificate", and one that names a doctor never registered fails
\* with "Doctor not registered".
C12_ImpersonationReported ==
    Instantiated =>
    \A cert \in Certs :
        /\ \A a \in PatientIDArgs :
            /\ C12_Reported(getPatientById(store, TRUE, cert, a).response, a.doctor, cert)
            /\ C12_Reported(getMedicalRecords(store, TRUE, cert, a).response, a.doctor, cert)
        /\ \A a \in DiagnosisArgs :
            LET v == getVisit(store, a.patient, a.ID)
            IN ~v.err =>
                C12_Reported(setDiagnosis(store, TRUE, cert, a).response, v.val.doctor, cert)
        /\ \A a \in PerscriptionArgs :
            LET v == getVisit(store, a.patient, a.ID)
            IN ~v.err =>
                C12_Reported(setPerscription(store, TRUE, cert, a).response, v.val.doctor, cert)

----------------------------------------------------------------------------
(* C13 *)

\* C13: when the visit (p, id) is stored, the creator passes the pin of the
\* visit's doctor and that doctor holds Full on p, SetDiagnosis(id, p, text)
\* succeeds, returns the visit with its diagnosis replaced by text and leaves
\* the ledger as it was but for that visit holding the returned value;
\* SetPerscription does the same with the prescription.
C13_SetDiagnosisFrame ==
    \A cert \in Certs :
        /\ \A a \in DiagnosisArgs :
            LET v == getVisit(store, a.patient, a.ID)
                patched == [v.val EXCEPT !.diagnosis = a.diagnosis]
            IN (~v.err /\ AuthorizedFor(store, cert, v.val)) =>
                    setDiagnosis(store, TRUE, cert, a) =
                        Outcome([store EXCEPT ![VisitKey(a.patient, a.ID)] = Marshal(patched)],
                                Success(Marshal(patched)))
        /\ \A a \in PerscriptionArgs :
            LET v == getVisit(store, a.patient, a.ID)
                patched == [v.val EXCEPT !.perscription = a.perscription]
            IN (~v.err /\ AuthorizedFor(store, cert, v.val)) =>
                    setPerscription(store, TRUE, cert, a) =
                        Outcome([store EXCEPT ![VisitKey(a.patient, a.ID)] = Marshal(patched)],
                                Success(Marshal(patched)))

----------------------------------------------------------------------------
(* C14 *)

\* C14: on an instantiated ledger SetDiagnosis and SetPerscription on a
\* (patient, visit) pair with no stored visit fail with the error getVisit
\* meets on the missing record, whatever is registered or granted, and leave
\* the ledger unchanged.
C14_MissingVisitNotFound ==
    Instantiated =>
    \A cert \in Certs :
        /\ \A a \in DiagnosisArgs :
            getVisit(store, a.patient, a.ID).err =>
                setDiagnosis(store, TRUE, cert, a) = Outcome(store, Error(ErrEndOfJSON))
        /\ \A a \in PerscriptionArgs :
            getVisit(store, a.patient, a.ID).err =>
                setPerscription(store, TRUE, cert, a) = Outcome(store, Error(ErrEndOfJSON))

----------------------------------------------------------------------------
(* C15 *)

\* C15: on an instantiated ledger UpdatePatientDetails(info) fails with the
\* error of the missing record and leaves the ledger unchanged when nothing is
\* stored under Patient/<info.ID>; otherwise it succeeds and the ledger differs
\* only in holding info under that key.
C15_UpdatePatientDetails ==
    Instantiated =>
    \A a \in PatientInfoArgs :
        LET out == updatePatient(store, TRUE, a)
            key == PatientKey(a.ID)
        IN IF GetState(store, key) = Nil
           THEN out = Outcome(store, Error(ErrEndOfJSON))
           ELSE /\ out = Outcome([store EXCEPT ![key] = Marshal(a)], Success(Nil))
                /\ PatientCount(out.store) = PatientCount(store)
                /\ Without(out.store, key) = Without(store, key)

\* patient 1 holds a first name only UpdatePatientDetails supplies, and no
\* record is stored for patient 2
C15_Witness ==
    /\ getPatient(store, 1).val.firstname = "K"
    /\ GetState(store, PatientKey(2)) = Nil
    /\ PatientCount(store) = 1

----------------------------------------------------------------------------
(* C16 *)

\* C16: on an instantiated ledger a RegisterPatient or PatientVisit during
\* which a Get or Put of the store fails returns an error, and one that
\* returns Success has raised its counter by one exactly if it has stored the
\* record it returns under the ID it returns.
C16_StoreErrorsPropagated ==
    Instantiated =>
    \A failing \in Failures :
        /\ \A a \in PatientInfoParamsArgs :
            LET out == registerPatient_StoreFailing(store, TRUE, a, failing)
                id == PatientCount(store) + 1
            IN /\ (failing # {} \/ PatientKey(id) = << >>) =>
                        out.response.status = "ERROR"
               /\ out.response.status = "OK" =>
                    (PatientCount(out.store) = PatientCount(store) + 1
                        <=> GetState(out.store, PatientKey(out.response.payload[2].ID))
                                = out.response.payload)
        /\ \A a \in VisitInfoArgs :
            LET out == patientVisit_StoreFailing(store, TRUE, a, failing)
                p == a.patient
                id == VisitCount(store, p) + 1
            IN /\ (failing # {} \/ VisitKey(p, id) = << >> \/ VisitCountKey(p) = << >>) =>
                        out.response.status = "ERROR"
               /\ out.response.status = "OK" =>
                    (VisitCount(out.store, p) = VisitCount(store, p) + 1
                        <=> GetState(out.store, VisitKey(p, out.response.payload[2].ID))
                                = out.response.payload)

----------------------------------------------------------------------------
(* C17 *)

\* C17: every level stored under DoctorAccessKey/<d>/<p> is None, Info or Full.
C17_StoredLevelsValid ==
    \A k \in AccessKeys(store) : Uint64(store[k]) \in Levels

----------------------------------------------------------------------------
(* C18 *)

\* the level checkAccess reports for (d, p) to the caller that passes d's pin
ReportedLevel(s, d, p) == checkAccess(s, p, d, Pinned(s, d)).access

C18_LevelsChanged(s, t, d, p) ==
    \/ StoredLevel(t, d, p) # StoredLevel(s, d, p)
    \/ ReportedLevel(t, d, p) # ReportedLevel(s, d, p)

C18_PerPair ==
    Instantiated =>
    /\ \A d \in Doctors, p \in PatientIDs :
        AccessKey(d, p) \notin DOMAIN store =>
            StoredLevel(store, d, p) = None /\ ReportedLevel(store, d, p) = None
    /\ \A d \in Doctors, p \in PatientIDs, L \in AccessArgs :
        LET t == setAccess(store, p, d, L).store
        IN t # store =>
            \A e \in Doctors, q \in PatientIDs :
                <<e, q>> # <<d, p>> => ~C18_LevelsChanged(store, t, e, q)

C18_OnlySetDoctorAccess ==
    store' # store =>
        \A d \in Doctors, p \in PatientIDs :
            C18_LevelsChanged(store, store', d, p) =>
                \E c \in SetDoctorAccessCalls :
                    /\ setDocAccess(store, c.wellFormed, c.args).changed
                    /\ store' = setDocAccess(store, c.wellFormed, c.args).store

\* C18: the level of a pair (d, p), as stored and as checkAccess reports it, is
\* None while no SetAccess has written a level for that pair; SetAccess(p, d, L)
\* leaves the level of every other pair as it is; and a step changes the level
\* of a pair only if it is a SetDoctorAccess.
C18_LevelsPerPair == []C18_PerPair /\ [][C18_OnlySetDoctorAccess]_vars

\* both doctors are registered, one pair holds a level SetAccess wrote and
\* every other pair has none
C18_Witness ==
    /\ \A d \in Doctors : Pinned(store, d) # Nil
    /\ \E d \in Doctors, p \in PatientIDs :
        /\ StoredLevel(store, d, p) = Info
        /\ \A e \in Doctors, q \in PatientIDs :
            <<e, q>> # <<d, p>> => AccessKey(e, q) \notin DOMAIN store

----------------------------------------------------------------------------
(* C19 *)

\* the numeric IDs keys are built from to read the ledger: those the callers
\* supply, a second surrogate code point and utf8.MaxRune
KeyIDs == VisitPatientIDs \cup VisitIDs \cup {55297, MaxRune}

\* C19: no key on the ledger is the Patient or VisitCount key of two different
\* patient IDs or the Visit key of two different (patient, visit) pairs, and
\* an access key on the ledger renders its patient ID as the record and
\* counter keys render it.
C19_KeyCodecInjective ==
    \A k \in DOMAIN store :
        /\ \A a \in KeyIDs, b \in KeyIDs :
            /\ (PatientKey(a) = k /\ PatientKey(b) = k) => a = b
            /\ (VisitCountKey(a) = k /\ VisitCountKey(b) = k) => a = b
        /\ \A a \in KeyIDs, b \in KeyIDs, c \in KeyIDs, d \in KeyIDs :
            (VisitKey(a, b) = k /\ VisitKey(c, d) = k) => <<a, b>> = <<c, d>>
        /\ \A a \in KeyIDs, d \in Doctors :
            AccessKey(d, a) = k =>
                /\ PatientKey(a) = <<PatientInfoKey, k[3]>>
                /\ VisitCountKey(a) = <<VisitInfoCountKey, k[3]>>

----------------------------------------------------------------------------
(* C20 *)

\* C20: a patient record is stored under Patient/<i> exactly for
\* 1 <= i <= PatientCount and carries the ID i; a visit stored under
\* Visit/<p>/<j> carries patient p and ID j, with 1 <= j <= VisitCount/<p>.
C20_StoreConsistent ==
    /\ \A i \in KeyIDs \cup (0 .. MaxKeys) :
        /\ ~getPatient(store, i).err <=> (1 <= i /\ i <= PatientCount(store))
        /\ ~getPatient(store, i).err => getPatient(store, i).val.ID = i
    /\ \A p \in KeyIDs, j \in KeyIDs \cup (0 .. MaxKeys) :
        LET v == getVisit(store, p, j)
        IN ~v.err => /\ v.val.patient = p
                     /\ v.val.ID = j
                     /\ 1 <= j /\ j <= VisitCount(store, p)

====
